---- MODULE Spec2Model ----
(***************************************************************************)
(* The Resistance web game (marceloig/resistance-game): the replicated     *)
(* session state machine.  Every client holds its own GameState, changed   *)
(* by the reducer of GameContext.tsx; the components' handlers apply a     *)
(* command locally and publish an event, and every other client folds the  *)
(* event with handleGameEvent.                                             *)
(*                                                                         *)
(* The transport (AppSync Events) is taken as working: a publish succeeds  *)
(* and reaches, in publish order, every client subscribed at that moment.  *)
(* A client is subscribed while it has a player id: useEventManager        *)
(* connects only with a non-empty playerId (EventManager.tsx:241-244).     *)
(* Every component of a client is given that client's own player id as     *)
(* currentPlayerId, as the component tests do.                             *)
(*                                                                         *)
(* The specifications:                                                     *)
(*   Spec         the lobby, from the opening of the room to the start;    *)
(*   RoundSpec    team building, vote and mission choice in a started      *)
(*                session (FairRoundSpec adds the scheduling);             *)
(*   MissionSpec  the end of a mission: handleMissionComplete, its timer   *)
(*                and the events it publishes;                             *)
(*   FoldSpec     handleGameEvent alone, on events of every type;          *)
(*   RolesSpec, LeaderSpec, VotesSpec, BoardSpec                           *)
(*                assignRoles, getNextLeader, calculateVotingResult and    *)
(*                the role visibility of GameBoard on drawn inputs;        *)
(*   StartSpec, TeamSpec                                                   *)
(*                the start button and the leader's team selection of      *)
(*                one client on drawn player lists;                        *)
(*   ResetSpec    MissionSpec with the RESET_GAME action of the reducer;   *)
(*   FailSpec     the commands when eventsManager.publish rejects;         *)
(*   RaceSpec     the start button on two clients at once;                 *)
(*   OverlapSpec  MissionSpec with two completions of a mission at once;   *)
(*   ProgressionSpec                                                       *)
(*                the reducer's ADD_MISSION_RESULT and SET_CURRENT_MISSION;*)
(*   ConnectSpec  useEventManager's connect and its retries.               *)
(***************************************************************************)
EXTENDS Integers, Sequences, FiniteSets, TLC

VARIABLES st, inbox, ui

vars == <<st, inbox, ui>>

(* ------------------------------ bounds --------------------------------- *)

\* Browsers that may open the room.
NumClients == 5

\* Events a subscriber may have waiting.
MaxInbox == 1

\* Ready toggles per client.
MaxToggles == 1

\* Joins per client (a client that left may join again under a new id).
MaxJoins == 1

\* Clients that may leave the lobby.
MaxLeaves == 1

\* Clients enter in the order of their numbers: the next JoinWindow clients
\* that have not entered yet may.
JoinWindow == 1

\* The names that the clients type.
NumNames == 4

\* The player lists given to the functions of gameLogic.ts have MinRoster to
\* MaxRoster players.
MinRoster == 4

MaxRoster == 11

\* The leader rotates over lists of up to MaxLine players whose names have
\* the ranks 1..MaxRank.
MaxLine == 4

MaxRank == 3

\* Votes are counted over the maps of up to MaxVoters voters.
MaxVoters == 5

\* The game board is drawn for lobbies of MinPlayers..MaxBoard players.
MaxBoard == 6

\* The fold is exercised on the events of the first MaxFoldIds players.
MaxFoldIds == 2

\* Events reach the subscribers in the order of their numbers: the first
\* DeliveryWindow subscribers that still wait may receive.
DeliveryWindow == 1

Clients == 1..NumClients

\* generateId: the id of client c's k-th join, unique over clients and joins.
generateId(c, k) == c + NumClients * (k - 1)

PlayerIds == 1..(NumClients * (MaxJoins + 1))

\* The name a client types.  Names are compared by localeCompare: here a name
\* is its rank in that order.  There are NumNames names: the clients past
\* NumNames type the names of the first clients again.
NameOf(c) == ((c - 1) % NumNames) + 1

NoPlayer == 0

(* --------------------------- types/game.ts ----------------------------- *)

Phases == {"lobby", "role-assignment", "team-building", "voting", "mission",
           "mission-result", "game-end"}

MinPlayers == 5

MaxPlayers == 10

\* ROLE_DISTRIBUTION: <<resistance, spy>> for 5..10 players.
ROLE_DISTRIBUTION(n) ==
  CASE n = 5 -> <<3, 2>>
    [] n = 6 -> <<4, 2>>
    [] n = 7 -> <<4, 3>>
    [] n = 8 -> <<5, 3>>
    [] n = 9 -> <<6, 3>>
    [] n = 10 -> <<6, 4>>
    [] OTHER -> <<>>

\* MISSION_REQUIREMENTS: the row of team sizes for 5..10 players.
MISSION_REQUIREMENTS(n) ==
  CASE n = 5 -> <<2, 3, 2, 3, 3>>
    [] n = 6 -> <<2, 3, 4, 3, 4>>
    [] n = 7 -> <<2, 3, 3, 4, 4>>
    [] n \in 8..10 -> <<3, 4, 4, 5, 5>>
    [] OTHER -> <<>>

\* A Player, as handleJoinRoom and the player-joined fold create it.
NewPlayer(id, name) ==
  [id |-> id, name |-> name, role |-> "resistance", isReady |-> FALSE,
   isConnected |-> TRUE, isLeader |-> FALSE]

\* initialGameState.
initialGameState ==
  [roomCode |-> "", phase |-> "lobby", players |-> <<>>,
   currentLeader |-> NoPlayer,
   currentMission |-> 1, missionHistory |-> <<>>, resistanceScore |-> 0,
   spyScore |-> 0, gameLog |-> <<>>, selectedTeam |-> <<>>,
   votingInProgress |-> FALSE, missionInProgress |-> FALSE,
   currentVotes |-> <<>>]

(* ------------------------- sequence helpers ---------------------------- *)

Range(s) == {s[i] : i \in 1..Len(s)}

\* Array.prototype.filter with the predicate given as the set of kept indices.
RECURSIVE FilterSeq(_, _)
FilterSeq(s, keep) ==
  IF s = <<>> THEN <<>>
  ELSE LET rest == FilterSeq(Tail(s), {i - 1 : i \in keep \ {1}})
       IN IF 1 \in keep THEN <<Head(s)>> \o rest ELSE rest

PlayerIdsOf(players) == {players[i].id : i \in 1..Len(players)}

\* A membership test that never finds the player.
HasPlayerNever(players, id) == FALSE

HasPlayer(players, id) == \E i \in 1..Len(players) : players[i].id = id

\* players.find(p => p.id === id): the first such player.
FindPlayer(players, id) ==
  players[CHOOSE i \in 1..Len(players) :
            /\ players[i].id = id
            /\ \A j \in 1..(i - 1) : players[j].id # id]

WithoutPlayer(players, id) ==
  FilterSeq(players, {i \in 1..Len(players) : players[i].id # id})

ConnectedPlayers(players) ==
  FilterSeq(players, {i \in 1..Len(players) : players[i].isConnected})

\* Insert p into a list sorted by name, after the entries that are not greater
\* (Array.prototype.sort is stable).
RECURSIVE InsertByName(_, _)
InsertByName(sorted, p) ==
  IF sorted = <<>> THEN <<p>>
  ELSE IF Head(sorted).name <= p.name
       THEN <<Head(sorted)>> \o InsertByName(Tail(sorted), p)
       ELSE <<p>> \o sorted

\* sortPlayersAlphabetically: a stable sort by name.
RECURSIVE sortPlayersAlphabetically(_)
sortPlayersAlphabetically(players) ==
  IF players = <<>> THEN <<>>
  ELSE InsertByName(sortPlayersAlphabetically(SubSeq(players, 1, Len(players) - 1)),
                    players[Len(players)])

(* ------------------------- utils/gameLogic.ts -------------------------- *)

\* The outcomes of the Fisher-Yates shuffle in assignRoles: every arrangement
\* of the table's roles over n positions.
RoleShuffles(n) ==
  IF ROLE_DISTRIBUTION(n) = <<>> THEN {}
  ELSE {r \in [1..n -> {"resistance", "spy"}] :
          Cardinality({i \in 1..n : r[i] = "spy"}) = ROLE_DISTRIBUTION(n)[2]}

\* A role assignment that builds the players anew from id and name.
assignRolesFresh(players, roles) ==
  [i \in 1..Len(players) |->
     [id |-> players[i].id, name |-> players[i].name, role |-> roles[i],
      isReady |-> FALSE, isConnected |-> TRUE, isLeader |-> FALSE]]

\* assignRoles: the shuffled roles zipped onto the players by position.
assignRoles(players, roles) ==
  [i \in 1..Len(players) |-> [players[i] EXCEPT !.role = roles[i]]]

\* A rotation in join order, without the sort by name.
getNextLeaderInJoinOrder(players, currentLeader) ==
  LET connected == ConnectedPlayers(players)
      n == Len(connected)
  IN IF n = 0 THEN NoPlayer
     ELSE IF \A i \in 1..n : connected[i].id # currentLeader
          THEN connected[1].id
          ELSE LET cur == CHOOSE i \in 1..n : connected[i].id = currentLeader
               IN connected[(cur % n) + 1].id

\* getNextLeader; NoPlayer stands for the thrown error (no connected player).
getNextLeader(players, currentLeader) ==
  LET connected == sortPlayersAlphabetically(ConnectedPlayers(players))
      n == Len(connected)
  IN IF n = 0 THEN NoPlayer
     ELSE IF \A i \in 1..n : connected[i].id # currentLeader
          THEN connected[1].id
          ELSE LET cur == CHOOSE i \in 1..n :
                            /\ connected[i].id = currentLeader
                            /\ \A j \in 1..(i - 1) : connected[j].id # currentLeader
               IN connected[(cur % n) + 1].id

\* A count that approves a tie.
calculateVotingResultOnTie(votes) ==
  LET yesVotes == Cardinality({v \in DOMAIN votes : votes[v]})
      noVotes == Cardinality({v \in DOMAIN votes : ~votes[v]})
  IN [approved |-> yesVotes >= noVotes, yesVotes |-> yesVotes, noVotes |-> noVotes]

\* calculateVotingResult(votes): approved on more yes than no.
calculateVotingResult(votes) ==
  LET yesVotes == Cardinality({v \in DOMAIN votes : votes[v]})
      noVotes == Cardinality({v \in DOMAIN votes : ~votes[v]})
  IN [approved |-> yesVotes > noVotes, yesVotes |-> yesVotes, noVotes |-> noVotes]

\* A majority rule for missions, as votes are counted: not what the code does.
calculateMissionResultMajority(choices) ==
  Cardinality({v \in DOMAIN choices : choices[v]})
    > Cardinality({v \in DOMAIN choices : ~choices[v]})

\* calculateMissionResult(choices).success: no fail choice.
calculateMissionResult(choices) ==
  Cardinality({v \in DOMAIN choices : ~choices[v]}) = 0

\* checkGameEnd(resistanceScore, spyScore).gameEnded
checkGameEnd(resistanceScore, spyScore) ==
  resistanceScore >= 3 \/ spyScore >= 3

\* A fail button that every player can press.
canAnyoneChooseFail(player) == TRUE

canPlayerChooseFail(player) == player.role = "spy"

\* getMissionRequirements: the table entry for (playerCount, missionNumber);
\* 0 where the table has none.
getMissionRequirements(playerCount, missionNumber) ==
  IF MISSION_REQUIREMENTS(playerCount) = <<>>
       \/ missionNumber \notin 1..Len(MISSION_REQUIREMENTS(playerCount))
  THEN 0
  ELSE MISSION_REQUIREMENTS(playerCount)[missionNumber]

(* ----------------------- utils/gameValidation.ts ----------------------- *)

\* A validation of the team's size alone.
validateTeamSelectionBySize(s) ==
  Len(s.selectedTeam) = getMissionRequirements(Len(s.players), s.currentMission)

\* validateTeamSelection(gameState).  MISSION_REQUIREMENTS[n][m - 1] of a
\* mission past the row is undefined, which no length equals.
validateTeamSelection(s) ==
  /\ MISSION_REQUIREMENTS(Len(s.players)) # <<>>
  /\ s.currentMission \in 1..Len(MISSION_REQUIREMENTS(Len(s.players)))
  /\ Len(s.selectedTeam) = MISSION_REQUIREMENTS(Len(s.players))[s.currentMission]
  /\ \A k \in 1..Len(s.selectedTeam) :
       /\ HasPlayer(s.players, s.selectedTeam[k])
       /\ FindPlayer(s.players, s.selectedTeam[k]).isConnected

\* validateMissionVoting(votes, players): one vote per connected player and
\* no vote of anyone else.
validateMissionVoting(votes, players) ==
  /\ Cardinality(DOMAIN votes) = Len(ConnectedPlayers(players))
  /\ DOMAIN votes \subseteq PlayerIdsOf(ConnectedPlayers(players))

\* validateGameStart: 5..10 players that are ready and connected.
validateGameStart(players) ==
  LET ready == Cardinality({i \in 1..Len(players) :
                              players[i].isReady /\ players[i].isConnected})
  IN ready >= MinPlayers /\ ready <= MaxPlayers

\* validatePlayerName against the players this client knows (the typed names
\* of the model are non-empty and at most 20 characters long).
validatePlayerName(name, existingPlayers) ==
  \A i \in 1..Len(existingPlayers) : existingPlayers[i].name # name

\* validTransitions of validatePhaseTransition.
validTransitions ==
  {<<"lobby", "role-assignment">>, <<"role-assignment", "team-building">>,
   <<"team-building", "voting">>, <<"voting", "team-building">>,
   <<"voting", "mission">>, <<"mission", "mission-result">>,
   <<"mission-result", "team-building">>, <<"mission-result", "game-end">>,
   <<"game-end", "lobby">>}

(* ------------------------------ events --------------------------------- *)

\* createGameEvent: a GameEvent with its type, its playerId (the sender) and
\* empty data.
BlankEvent(type, sender) ==
  [type |-> type, playerId |-> sender, target |-> NoPlayer, name |-> 0,
   flag |-> FALSE, roles |-> <<>>, team |-> <<>>, scores |-> <<0, 0>>,
   votes |-> <<>>, choices |-> <<>>]

\* data: {playerId, playerName}
PlayerJoined(sender, id, name) ==
  [BlankEvent("player-joined", sender) EXCEPT !.target = id, !.name = name]

\* data: {playerId}
PlayerLeft(sender, id) ==
  [BlankEvent("player-left", sender) EXCEPT !.target = id]

\* data: {playerId, isReady}
PlayerReady(sender, id, isReady) ==
  [BlankEvent("player-ready", sender) EXCEPT !.target = id, !.flag = isReady]

\* data: {roles, firstLeader}
RolesAssigned(sender, roles, firstLeader) ==
  [BlankEvent("roles-assigned", sender) EXCEPT !.roles = roles,
                                               !.target = firstLeader]

\* data: {selectedTeam, missionNumber, requiredPlayers}
TeamSelected(sender, team) ==
  [BlankEvent("team-selected", sender) EXCEPT !.team = team]

\* data: {vote}
VoteCast(sender, vote) ==
  [BlankEvent("vote-cast", sender) EXCEPT !.flag = vote]

\* data: {votes, result, missionNumber}
VotingCompleted(sender, votes, approved) ==
  [BlankEvent("voting-completed", sender) EXCEPT !.votes = votes,
                                                 !.flag = approved]

\* data: {newLeader, reason}
LeadershipChanged(sender, newLeader) ==
  [BlankEvent("leadership-changed", sender) EXCEPT !.target = newLeader]

\* data: {choice}
MissionChoiceMade(sender, choice) ==
  [BlankEvent("mission-choice-made", sender) EXCEPT !.flag = choice]

\* data: {choices, result, missionNumber, newScores}
MissionCompleted(sender, choices, success, scores) ==
  [BlankEvent("mission-completed", sender) EXCEPT !.choices = choices,
                                                  !.flag = success,
                                                  !.scores = scores]

\* data: {winner, finalScores}
GameEnded(sender, scores) ==
  [BlankEvent("game-ended", sender) EXCEPT !.scores = scores]

(* ------------------- context/GameContext.tsx: reducer ------------------ *)

\* A reset to the initial state, room code and players included.
RESET_GAME_ToInitial(s) == initialGameState

\* RESET_GAME: the initial state with the room code kept and the players kept
\* but made resistance, not ready and not leader.
RESET_GAME(s) ==
  [initialGameState EXCEPT
     !.roomCode = s.roomCode,
     !.players = [i \in 1..Len(s.players) |->
                    [s.players[i] EXCEPT !.role = "resistance",
                                         !.isReady = FALSE,
                                         !.isLeader = FALSE]]]

\* SET_LEADER.
SetLeader(s, id) ==
  [s EXCEPT !.currentLeader = id,
            !.players = [i \in 1..Len(s.players) |->
                           [s.players[i] EXCEPT !.isLeader = (s.players[i].id = id)]]]

\* UPDATE_PLAYER with updates {isReady}.
UpdatePlayerReady(s, id, isReady) ==
  [s EXCEPT !.players = [i \in 1..Len(s.players) |->
                           IF s.players[i].id = id
                           THEN [s.players[i] EXCEPT !.isReady = isReady]
                           ELSE s.players[i]]]

\* roles[p.id] || 'resistance'
RoleOrDefault(roles, id) ==
  IF id \in DOMAIN roles THEN roles[id] ELSE "resistance"

\* handleGameEvent: the fold of one received event.
handleGameEvent(s, e) ==
  CASE e.type = "player-joined" ->
         IF HasPlayer(s.players, e.target) THEN s
         ELSE [s EXCEPT !.players = Append(s.players, NewPlayer(e.target, e.name))]
    [] e.type = "player-left" ->
         [s EXCEPT !.players = WithoutPlayer(s.players, e.target)]
    [] e.type = "player-ready" -> UpdatePlayerReady(s, e.target, e.flag)
    [] e.type = "roles-assigned" ->
         [s EXCEPT !.phase = "team-building",
                   !.players = [i \in 1..Len(s.players) |->
                                  [s.players[i] EXCEPT
                                     !.role = RoleOrDefault(e.roles, s.players[i].id)]],
                   !.currentLeader = e.target]
    [] e.type = "leadership-changed" -> SetLeader(s, e.target)
    [] e.type = "team-selected" ->
         [s EXCEPT !.selectedTeam = e.team, !.phase = "voting",
                   !.votingInProgress = TRUE, !.currentVotes = <<>>]
    [] e.type = "vote-cast" ->
         [s EXCEPT !.currentVotes = (e.playerId :> e.flag) @@ s.currentVotes]
    [] e.type = "voting-completed" -> [s EXCEPT !.votingInProgress = FALSE]
    [] e.type = "mission-started" ->
         [s EXCEPT !.phase = "mission", !.missionInProgress = TRUE]
    [] e.type = "mission-completed" ->
         [s EXCEPT !.missionInProgress = FALSE, !.phase = "mission-result",
                   !.resistanceScore = e.scores[1], !.spyScore = e.scores[2]]
    [] e.type = "game-ended" ->
         [s EXCEPT !.phase = "game-end",
                   !.resistanceScore = e.scores[1], !.spyScore = e.scores[2]]
    [] OTHER -> s

(* --------------------- the channel (EventManager.tsx) ------------------ *)

\* The component state of a client that has not joined.
\* No setTimeout callback is pending.  A client holds one pending callback at
\* a time: a handler that would set a second one waits for the first.
NoTimer ==
  [kind |-> "none", flag |-> FALSE, players |-> <<>>, leader |-> NoPlayer,
   scores |-> <<0, 0>>]

\* The component state of a client that has not joined: PlayerManager's
\* isJoined and currentPlayerId, VotingController's votes and hasVoted,
\* MissionExecution's missionChoices and hasChosen, the pending timer, and
\* useEventManager's error ("" for null).
initialUi ==
  [isJoined |-> FALSE, currentPlayerId |-> NoPlayer, joins |-> 0, toggles |-> 0,
   votes |-> <<>>, hasVoted |-> FALSE, missionChoices |-> <<>>,
   hasChosen |-> FALSE, timer |-> NoTimer, error |-> ""]

\* GameRoom renders VotingController in the voting phase only and
\* MissionExecution in the mission phase only: outside it the component is
\* unmounted and its useState values are lost.
Remount(u, phase) ==
  [u EXCEPT !.votes = IF phase = "voting" THEN @ ELSE <<>>,
            !.hasVoted = IF phase = "voting" THEN @ ELSE FALSE,
            !.missionChoices = IF phase = "mission" THEN @ ELSE <<>>,
            !.hasChosen = IF phase = "mission" THEN @ ELSE FALSE]

Subscribed(c) == ui[c].currentPlayerId # NoPlayer

\* A handler that publishes starts when fewer than MaxInbox events are waiting
\* at every subscriber.
CanPublish == \A d \in Clients : Len(inbox[d]) < MaxInbox

\* eventsManager.publish: the events reach every subscriber, the sender too.
Publish(box, subscribers, events) ==
  [d \in Clients |-> IF d \in subscribers THEN box[d] \o events ELSE box[d]]

\* A subscription callback without the sender check: every event is folded.
ReceiveAll(s, playerId, e) == handleGameEvent(s, e)

\* The callback of useEventManager's subscription, then GameRoom.handleGameEvent:
\* an event of the client's own player id is dropped, any other is folded.
Receive(s, playerId, e) ==
  IF e.playerId # playerId THEN handleGameEvent(s, e) ELSE s

(* ------------------------------ lobby ---------------------------------- *)

Init ==
  /\ st = [c \in Clients |-> initialGameState]
  /\ inbox = [c \in Clients |-> <<>>]
  /\ ui = [c \in Clients |-> initialUi]

\* PlayerManager.handleJoinRoom (PlayerManager is rendered in the lobby only).
HandleJoinRoom(c) ==
  LET id == generateId(c, ui[c].joins + 1)
      name == NameOf(c)
  IN /\ st[c].phase = "lobby"
     /\ ~ui[c].isJoined
     /\ ui[c].joins < MaxJoins
     /\ c <= Cardinality({d \in Clients : ui[d].joins > 0}) + JoinWindow
     /\ validatePlayerName(name, st[c].players)
     /\ Len(st[c].players) < MaxPlayers
     /\ CanPublish
     /\ st' = [st EXCEPT ![c].players = Append(@, NewPlayer(id, name))]
     /\ ui' = [ui EXCEPT ![c].isJoined = TRUE, ![c].currentPlayerId = id,
                         ![c].joins = @ + 1]
     /\ inbox' = Publish(inbox, {d \in Clients : Subscribed(d)} \cup {c},
                         <<PlayerJoined(id, id, name)>>)

\* PlayerManager.handleToggleReady.
HandleToggleReady(c) ==
  LET id == ui[c].currentPlayerId
  IN /\ st[c].phase = "lobby"
     /\ ui[c].isJoined
     /\ HasPlayer(st[c].players, id)
     /\ ui[c].toggles < MaxToggles
     /\ CanPublish
     /\ LET newReadyState == ~FindPlayer(st[c].players, id).isReady
        IN /\ st' = [st EXCEPT ![c] = UpdatePlayerReady(@, id, newReadyState)]
           /\ inbox' = Publish(inbox, {d \in Clients : Subscribed(d)},
                               <<PlayerReady(id, id, newReadyState)>>)
     /\ ui' = [ui EXCEPT ![c].toggles = @ + 1]

\* PlayerManager.handleLeaveRoom; the client's subscription ends with its
\* player id.
HandleLeaveRoom(c) ==
  LET id == ui[c].currentPlayerId
  IN /\ st[c].phase = "lobby"
     /\ ui[c].isJoined
     /\ Cardinality({d \in Clients : ui[d].joins > 0 /\ ~ui[d].isJoined}) < MaxLeaves
     /\ CanPublish
     /\ st' = [st EXCEPT ![c].players = WithoutPlayer(@, id)]
     /\ ui' = [ui EXCEPT ![c].isJoined = FALSE, ![c].currentPlayerId = NoPlayer]
     /\ inbox' = [Publish(inbox, {d \in Clients : Subscribed(d)} \ {c},
                          <<PlayerLeft(id, id)>>) EXCEPT ![c] = <<>>]

\* GameRoom: the room creator is the first of the players sorted by name.
isRoomCreator(c) ==
  /\ st[c].players # <<>>
  /\ sortPlayersAlphabetically(st[c].players)[1].id = ui[c].currentPlayerId

\* GameRoom: the start button is enabled.
canStartGame(c) ==
  LET ready == Cardinality({i \in 1..Len(st[c].players) : st[c].players[i].isReady})
  IN isRoomCreator(c) /\ ready >= MinPlayers /\ ready <= MaxPlayers

\* The roles map of the roles-assigned event.
RoleAssignments(players) ==
  [id \in PlayerIdsOf(players) |-> FindPlayer(players, id).role]

\* GameRoom.handleStartGame, behind the start button, while fewer than `waiting`
\* events wait at every subscriber.  assignRoles throws for a player count
\* outside the table; nothing has been dispatched by then.
StartGameWhile(c, waiting) ==
  /\ st[c].phase = "lobby"
  /\ HasPlayer(st[c].players, ui[c].currentPlayerId)
  /\ canStartGame(c)
  /\ validateGameStart(st[c].players)
  /\ \A d \in Clients : Len(inbox[d]) < waiting
  /\ \E roles \in RoleShuffles(Len(st[c].players)) :
       LET playersWithRoles == assignRoles(st[c].players, roles)
           firstLeader == sortPlayersAlphabetically(playersWithRoles)[1].id
       IN /\ st' = [st EXCEPT ![c] =
                      [SetLeader([@ EXCEPT !.players = playersWithRoles], firstLeader)
                         EXCEPT !.phase = "role-assignment"]]
          /\ inbox' = Publish(inbox, {d \in Clients : Subscribed(d)},
                              <<RolesAssigned(ui[c].currentPlayerId,
                                              RoleAssignments(playersWithRoles),
                                              firstLeader)>>)
  /\ UNCHANGED ui

HandleStartGame(c) == StartGameWhile(c, MaxInbox)

\* One event arrives at a subscriber.
Deliver(c) ==
  /\ inbox[c] # <<>>
  /\ Cardinality({d \in Clients : d < c /\ inbox[d] # <<>>}) < DeliveryWindow
  /\ st' = [st EXCEPT ![c] = Receive(@, ui[c].currentPlayerId, Head(inbox[c]))]
  /\ inbox' = [inbox EXCEPT ![c] = Tail(@)]
  /\ ui' = [ui EXCEPT ![c] = Remount(@, st'[c].phase)]

Next ==
  \E c \in Clients :
    \/ HandleJoinRoom(c)
    \/ HandleToggleReady(c)
    \/ HandleLeaveRoom(c)
    \/ HandleStartGame(c)
    \/ Deliver(c)

Spec == Init /\ [][Next]_vars

(* ----------------------- properties of the lobby ----------------------- *)

\* The clients in the room: those that hold a player id.
InRoom == {c \in Clients : Subscribed(c)}

\* Every published event has been delivered (handlers are atomic, so no command
\* is in progress in any state).
Quiescent == \A c \in Clients : inbox[c] = <<>>

\* The shared part of a client's state.
SharedState(s) ==
  [players |-> PlayerIdsOf(s.players), phase |-> s.phase,
   currentLeader |-> s.currentLeader, currentMission |-> s.currentMission,
   resistanceScore |-> s.resistanceScore, spyScore |-> s.spyScore,
   selectedTeam |-> s.selectedTeam]

\* C1: once every published event is delivered, all clients in the room hold
\* the same shared state (player ids, phase, currentLeader, currentMission,
\* scores, selectedTeam), a client that joined after others included.
C1_Convergence ==
  Quiescent => \A c, d \in InRoom : SharedState(st[c]) = SharedState(st[d])

\* C2: on every client, every change of phase is a pair of validTransitions,
\* whether made by a local command or by folding a received event.
C2_PhaseTransitions ==
  [][\A c \in Clients :
       st'[c].phase # st[c].phase =>
         <<st[c].phase, st'[c].phase>> \in validTransitions]_vars

LeadersOf(players) == {i \in 1..Len(players) : players[i].isLeader}

\* C6: on every client with phase # lobby, exactly one player has isLeader set
\* and that player's id is currentLeader.
C6_OneLeader ==
  \A c \in Clients :
    st[c].phase # "lobby" =>
      /\ Cardinality(LeadersOf(st[c].players)) = 1
      /\ \A i \in LeadersOf(st[c].players) :
           st[c].players[i].id = st[c].currentLeader

RoleCount(players, role) ==
  Cardinality({i \in 1..Len(players) : players[i].role = role})

\* C7: on every client with phase # lobby, the numbers of resistance and spy
\* players equal the ROLE_DISTRIBUTION entry for the number of players.
C7_RoleDistribution ==
  \A c \in Clients :
    st[c].phase # "lobby" =>
      <<RoleCount(st[c].players, "resistance"), RoleCount(st[c].players, "spy")>>
        = ROLE_DISTRIBUTION(Len(st[c].players))

\* C8: on every client with phase # lobby, there are 5 to 10 players.
C8_PlayerCount ==
  \A c \in Clients :
    st[c].phase # "lobby" =>
      Len(st[c].players) >= MinPlayers /\ Len(st[c].players) <= MaxPlayers

(* ------------------------------ a round -------------------------------- *)

\* createLogEntry: the type and the data of a GameLogEntry.
LogEntry(type, missionNumber, flag, data) ==
  [type |-> type, missionNumber |-> missionNumber, flag |-> flag, data |-> data]

\* A leader check that every listed player passes.
isLeaderAnyPlayer(c) == HasPlayer(st[c].players, ui[c].currentPlayerId)

\* currentPlayer?.id === state.currentLeader
isLeader(c) ==
  /\ HasPlayer(st[c].players, ui[c].currentPlayerId)
  /\ ui[c].currentPlayerId = st[c].currentLeader

\* MissionController.handlePlayerToggle: the leader selects or deselects a
\* listed player; a selection beyond the required size is ignored.
HandlePlayerToggle(c, playerId) ==
  LET currentTeam == st[c].selectedTeam
      requiredPlayers ==
        getMissionRequirements(Len(st[c].players), st[c].currentMission)
  IN /\ st[c].phase = "team-building"
     /\ isLeader(c)
     /\ HasPlayer(st[c].players, playerId)
     /\ st' = [st EXCEPT ![c].selectedTeam =
                 IF playerId \in Range(currentTeam)
                 THEN FilterSeq(currentTeam,
                                {k \in 1..Len(currentTeam) : currentTeam[k] # playerId})
                 ELSE IF Len(currentTeam) < requiredPlayers
                      THEN Append(currentTeam, playerId)
                      ELSE currentTeam]
     /\ UNCHANGED <<inbox, ui>>

\* MissionController.handlePrepareMission.
HandlePrepareMission(c) ==
  /\ st[c].phase = "team-building"
  /\ isLeader(c)
  /\ validateTeamSelection(st[c])
  /\ CanPublish
  /\ inbox' = Publish(inbox, {d \in Clients : Subscribed(d)},
                      <<TeamSelected(ui[c].currentPlayerId, st[c].selectedTeam)>>)
  /\ st' = [st EXCEPT ![c].phase = "voting"]
  /\ ui' = [ui EXCEPT ![c] = Remount(@, "voting")]

\* The effect of VotingController that casts the leader's vote is due:
\* !votes[currentPlayerId] holds of no vote and of a no vote alike.
AutoVoteDue(c) ==
  /\ st[c].phase = "voting"
  /\ isLeader(c)
  /\ IF ui[c].currentPlayerId \in DOMAIN ui[c].votes
     THEN ~ui[c].votes[ui[c].currentPlayerId]
     ELSE TRUE

\* VotingController's effect: the leader's automatic yes.
LeaderAutoVote(c) ==
  /\ AutoVoteDue(c)
  /\ CanPublish
  /\ ui' = [ui EXCEPT ![c].votes = (ui[c].currentPlayerId :> TRUE),
                      ![c].hasVoted = TRUE]
  /\ inbox' = Publish(inbox, {d \in Clients : Subscribed(d)},
                      <<VoteCast(ui[c].currentPlayerId, TRUE)>>)
  /\ UNCHANGED st

\* VotingController.handleVotingComplete up to its setTimeout, as the state,
\* the events published and the timer left pending.
handleVotingComplete(s, playerId, finalVotes) ==
  LET approved == calculateVotingResult(finalVotes).approved
  IN IF ~validateMissionVoting(finalVotes, ConnectedPlayers(s.players))
     THEN [state |-> s, events |-> <<>>, timer |-> NoTimer]
     ELSE [state |->
             [s EXCEPT !.gameLog =
                Append(@, LogEntry("team-vote", s.currentMission, approved,
                                   <<finalVotes, s.selectedTeam>>))],
           events |-> <<VotingCompleted(playerId, finalVotes, approved)>>,
           timer |-> [NoTimer EXCEPT !.kind = "vote", !.flag = approved,
                                     !.players = s.players,
                                     !.leader = s.currentLeader]]

\* VotingController.handleVote; the effect above runs before any click.
HandleVote(c, vote) ==
  LET id == ui[c].currentPlayerId
      newVotes == (id :> vote) @@ ui[c].votes
      complete == Cardinality(DOMAIN newVotes) = Len(ConnectedPlayers(st[c].players))
      done == handleVotingComplete(st[c], id, newVotes)
  IN /\ st[c].phase = "voting"
     /\ id # NoPlayer
     /\ ~AutoVoteDue(c)
     /\ ~ui[c].hasVoted
     /\ complete => ui[c].timer = NoTimer
     /\ CanPublish
     /\ st' = [st EXCEPT ![c] = IF complete THEN done.state ELSE @]
     /\ ui' = [ui EXCEPT ![c].votes = newVotes, ![c].hasVoted = TRUE,
                         ![c].timer = IF complete /\ done.timer # NoTimer
                                      THEN done.timer ELSE @]
     /\ inbox' = Publish(inbox, {d \in Clients : Subscribed(d)},
                         <<VoteCast(id, vote)>>
                           \o (IF complete THEN done.events ELSE <<>>))

\* The setTimeout callback of handleVotingComplete, 3 s later: on approval the
\* mission phase; otherwise the next leader, computed from the players and the
\* leader the handler saw, and back to team building.
VotingTimer(c) ==
  LET t == ui[c].timer
      nextLeader == getNextLeader(t.players, t.leader)
  IN /\ t.kind = "vote"
     /\ t.flag \/ CanPublish
     /\ IF t.flag
        THEN /\ st' = [st EXCEPT ![c].phase = "mission"]
             /\ UNCHANGED inbox
        ELSE /\ st' = [st EXCEPT ![c] =
                         [SetLeader(@, nextLeader) EXCEPT
                            !.selectedTeam = <<>>,
                            !.phase = "team-building",
                            !.gameLog = Append(@, LogEntry("leadership-change",
                                                           st[c].currentMission, FALSE,
                                                           <<nextLeader>>))]]
             /\ inbox' = Publish(inbox, {d \in Clients : Subscribed(d)},
                                 <<LeadershipChanged(ui[c].currentPlayerId, nextLeader)>>)
     /\ ui' = [ui EXCEPT ![c] = Remount([@ EXCEPT !.timer = NoTimer], st'[c].phase)]

\* validateMissionProgression(missionNumber, resistanceScore, spyScore).isValid:
\* the mission number is one of the five missions.
validateMissionProgression(missionNumber, resistanceScore, spyScore) ==
  missionNumber \in 1..5

\* ADD_MISSION_RESULT: a failed check is logged to the console and the result
\* is appended all the same.
ADD_MISSION_RESULT(s, result) ==
  [s EXCEPT !.missionHistory = Append(@, result), !.currentMission = @ + 1]

\* SET_CURRENT_MISSION: the state is returned when the check fails.
SET_CURRENT_MISSION(s, missionNumber) ==
  IF validateMissionProgression(missionNumber, s.resistanceScore, s.spyScore)
  THEN [s EXCEPT !.currentMission = missionNumber]
  ELSE s

\* The MissionResult that ADD_MISSION_RESULT appends.
MissionResult(s, finalChoices, success, scores) ==
  [missionNumber |-> s.currentMission, requiredPlayers |-> Len(s.selectedTeam),
   selectedPlayers |-> s.selectedTeam, votes |-> s.currentVotes,
   missionChoices |-> finalChoices,
   outcome |-> IF success THEN "success" ELSE "failure",
   resistancePoints |-> scores[1], spyPoints |-> scores[2]]

\* Log data that tells every player's choice.
MissionLogDataByPlayer(team, finalChoices, newScores) ==
  <<team, finalChoices, newScores>>

\* The data of the mission-complete log entry: the participants, the numbers
\* of success and fail choices and the new scores.
MissionLogData(team, finalChoices, newScores) ==
  <<team, Cardinality({v \in DOMAIN finalChoices : finalChoices[v]}),
    Cardinality({v \in DOMAIN finalChoices : ~finalChoices[v]}), newScores>>

\* MissionExecution.handleMissionComplete up to its setTimeout: UPDATE_SCORES,
\* ADD_MISSION_RESULT (which also advances currentMission), ADD_LOG_ENTRY, the
\* mission-completed event and the timer left pending.
handleMissionComplete(s, playerId, finalChoices) ==
  LET success == calculateMissionResult(finalChoices)
      newScores == IF success THEN <<s.resistanceScore + 1, s.spyScore>>
                   ELSE <<s.resistanceScore, s.spyScore + 1>>
  IN [state |->
        [ADD_MISSION_RESULT([s EXCEPT !.resistanceScore = newScores[1],
                                      !.spyScore = newScores[2]],
                            MissionResult(s, finalChoices, success, newScores))
           EXCEPT !.gameLog =
                     Append(@, LogEntry("mission-complete", s.currentMission, success,
                                        MissionLogData(s.selectedTeam, finalChoices,
                                                       newScores)))],
      events |-> <<MissionCompleted(playerId, finalChoices, success, newScores)>>,
      timer |-> [NoTimer EXCEPT !.kind = "mission",
                                !.flag = checkGameEnd(newScores[1], newScores[2]),
                                !.players = s.players, !.leader = s.currentLeader,
                                !.scores = newScores]]

\* MissionExecution.handleMissionChoice; the fail button is disabled unless
\* canPlayerChooseFail.
HandleMissionChoice(c, choice) ==
  LET id == ui[c].currentPlayerId
      newChoices == (id :> choice) @@ ui[c].missionChoices
      complete == Cardinality(DOMAIN newChoices) = Len(st[c].selectedTeam)
      done == handleMissionComplete(st[c], id, newChoices)
  IN /\ st[c].phase = "mission"
     /\ id # NoPlayer
     /\ ~ui[c].hasChosen
     /\ id \in Range(st[c].selectedTeam)
     /\ choice \/ (HasPlayer(st[c].players, id)
                     /\ canPlayerChooseFail(FindPlayer(st[c].players, id)))
     /\ complete => ui[c].timer = NoTimer
     /\ CanPublish
     /\ st' = [st EXCEPT ![c] = IF complete THEN done.state ELSE @]
     /\ ui' = [ui EXCEPT ![c].missionChoices = newChoices, ![c].hasChosen = TRUE,
                         ![c].timer = IF complete THEN done.timer ELSE @]
     /\ inbox' = Publish(inbox, {d \in Clients : Subscribed(d)},
                         <<MissionChoiceMade(id, choice)>>
                           \o (IF complete THEN done.events ELSE <<>>))

\* The setTimeout callback of handleMissionComplete, 4 s later: the end of the
\* game, or the next leader and back to team building.
MissionTimer(c) ==
  LET t == ui[c].timer
      nextLeader == getNextLeader(t.players, t.leader)
  IN /\ t.kind = "mission"
     /\ CanPublish
     /\ IF t.flag
        THEN /\ st' = [st EXCEPT ![c] =
                         [@ EXCEPT !.phase = "game-end",
                                   !.gameLog = Append(@, LogEntry("game-end",
                                                                  st[c].currentMission,
                                                                  t.scores[1] >= 3,
                                                                  t.scores))]]
             /\ inbox' = Publish(inbox, {d \in Clients : Subscribed(d)},
                                 <<GameEnded(ui[c].currentPlayerId, t.scores)>>)
        ELSE /\ st' = [st EXCEPT ![c] =
                         [SetLeader(@, nextLeader) EXCEPT
                            !.selectedTeam = <<>>,
                            !.currentVotes = <<>>,
                            !.phase = "team-building",
                            !.gameLog = Append(@, LogEntry("leadership-change",
                                                           st[c].currentMission, FALSE,
                                                           <<nextLeader>>))]]
             /\ inbox' = Publish(inbox, {d \in Clients : Subscribed(d)},
                                 <<LeadershipChanged(ui[c].currentPlayerId, nextLeader)>>)
     /\ ui' = [ui EXCEPT ![c] = Remount([@ EXCEPT !.timer = NoTimer], st'[c].phase)]

(* ------------------------- a started session --------------------------- *)

\* The lobby of a client that saw the joins from client `first` on: the
\* players in join order, all ready.
LobbyView(first) ==
  [i \in 1..(NumClients - first + 1) |->
     [NewPlayer(generateId(first + i - 1, 1), NameOf(first + i - 1))
        EXCEPT !.isReady = TRUE]]

\* The state of client c once client 1 has started the game with the shuffle
\* `roles`: client 1 by handleStartGame, any other by folding roles-assigned
\* into its lobby.  handleStartGame leaves client 1 in role-assignment and no
\* code takes it further; the round is played from the state in which client 1
\* is in team-building like the others, as the components' tests set it up.
Started(c, roles, first) ==
  LET playersWithRoles == assignRoles(LobbyView(1), roles)
      firstLeader == sortPlayersAlphabetically(playersWithRoles)[1].id
  IN IF c = 1
     THEN [SetLeader([initialGameState EXCEPT !.players = playersWithRoles],
                     firstLeader)
             EXCEPT !.phase = "team-building"]
     ELSE handleGameEvent([initialGameState EXCEPT !.players = LobbyView(first)],
                          RolesAssigned(generateId(1, 1),
                                        RoleAssignments(playersWithRoles),
                                        firstLeader))

\* The component state of a client that has joined.
JoinedUi(c) ==
  [initialUi EXCEPT !.isJoined = TRUE, !.currentPlayerId = generateId(c, 1),
                    !.joins = 1, !.toggles = 1]

\* The ids of a set in ascending order.
RECURSIVE Ascending(_)
Ascending(S) ==
  IF S = {} THEN <<>>
  ELSE LET m == CHOOSE x \in S : \A y \in S : x <= y
       IN <<m>> \o Ascending(S \ {m})

\* The teams of a size out of the first n players.
Teams(n, size) ==
  {Ascending(T) : T \in {T \in SUBSET (1..n) : Cardinality(T) = size}}

\* The history of a session with the given scores: the successes first.
PastResults(n, resistanceScore, spyScore) ==
  [m \in 1..(resistanceScore + spyScore) |->
     LET team == Ascending(1..getMissionRequirements(n, m))
     IN [missionNumber |-> m, requiredPlayers |-> Len(team),
         selectedPlayers |-> team, votes |-> [p \in 1..n |-> TRUE],
         missionChoices |-> [p \in Range(team) |->
                               m <= resistanceScore \/ p # team[1]],
         outcome |-> IF m <= resistanceScore THEN "success" ELSE "failure",
         resistancePoints |-> IF m <= resistanceScore THEN m ELSE resistanceScore,
         spyPoints |-> IF m <= resistanceScore THEN 0 ELSE m - resistanceScore]]

\* The state of client c in the mission phase of the mission that follows the
\* given scores, the team approved by every player, as the tests of
\* MissionExecution set it up.
InMission(c, roles, resistanceScore, spyScore, team) ==
  LET s == Started(c, roles, 1)
      m == resistanceScore + spyScore + 1
      n == Len(s.players)
  IN [SetLeader(s, s.players[((m - 1) % n) + 1].id) EXCEPT
        !.phase = "mission", !.missionInProgress = TRUE,
        !.currentMission = m, !.resistanceScore = resistanceScore,
        !.spyScore = spyScore, !.selectedTeam = team,
        !.currentVotes = [p \in PlayerIdsOf(s.players) |-> TRUE],
        !.missionHistory = PastResults(n, resistanceScore, spyScore)]

\* Missions already played when the mission phase is entered at the start.
MaxPlayed == 1

\* The leader picks among the first MaxPick players of its list.
MaxPick == 2

\* The shuffles a round starts from: the spies are the first or the last of
\* the players.
SampleShuffles(n) ==
  {r \in RoleShuffles(n) :
     \/ \A i \in 1..n : r[i] = "spy" <=> i <= ROLE_DISTRIBUTION(n)[2]
     \/ \A i \in 1..n : r[i] = "spy" <=> i > ROLE_DISTRIBUTION(n)[1]}

\* The round: the session just started, every client with the same players or
\* each with the players that joined no earlier than itself; or a session in
\* the mission phase.
RoundInit ==
  /\ inbox = [c \in Clients |-> <<>>]
  /\ ui = [c \in Clients |-> JoinedUi(c)]
  /\ \E roles \in SampleShuffles(NumClients) :
       \/ \E late \in BOOLEAN :
            st = [c \in Clients |-> Started(c, roles, IF late THEN c ELSE 1)]
       \/ \E resistanceScore, spyScore \in 0..MaxPlayed :
            /\ resistanceScore + spyScore <= MaxPlayed
            /\ \E team \in Teams(MaxPick + 1,
                                 getMissionRequirements(NumClients,
                                                        resistanceScore + spyScore + 1)) :
                 st = [c \in Clients |->
                         InMission(c, roles, resistanceScore, spyScore, team)]

RoundNext ==
  \E c \in Clients :
    \/ \E k \in 1..MaxPick :
         k <= Len(st[c].players) /\ HandlePlayerToggle(c, st[c].players[k].id)
    \/ HandlePrepareMission(c)
    \/ LeaderAutoVote(c)
    \/ \E vote \in BOOLEAN : HandleVote(c, vote)
    \/ VotingTimer(c)
    \/ \E choice \in BOOLEAN : HandleMissionChoice(c, choice)
    \/ Deliver(c)

RoundSpec == RoundInit /\ [][RoundNext]_vars

\* Every event in flight arrives, the callbacks that are due run, a player who
\* can vote votes and a team member who can choose chooses; the leader is not
\* bound to propose a team.
FairRoundSpec ==
  /\ RoundSpec
  /\ \A c \in Clients :
       /\ WF_vars(Deliver(c) \/ LeaderAutoVote(c) \/ VotingTimer(c))
       /\ WF_vars(\E vote \in BOOLEAN : HandleVote(c, vote))
       /\ WF_vars(\E choice \in BOOLEAN : HandleMissionChoice(c, choice))

(* ----------------------- properties of a round ------------------------- *)

\* Every connected player has voted on the proposed team and the votes have
\* arrived everywhere.
VotingSettled ==
  /\ Quiescent
  /\ \A c \in Clients : st[c].phase = "voting" /\ ui[c].hasVoted

\* C3: in the voting phase, once every connected player has voted and the
\* votes are delivered, the round completes: the phase leaves voting (here:
\* on one client at least).
C3_VotingCompletes ==
  VotingSettled ~> (\E c \in Clients : st[c].phase # "voting")

\* Every member of the team has submitted a choice and the events have arrived.
MissionSettled ==
  /\ Quiescent
  /\ \A c \in Clients :
       /\ st[c].phase = "mission"
       /\ ui[c].currentPlayerId \in Range(st[c].selectedTeam) => ui[c].hasChosen

\* C4: in the mission phase, once every team member has submitted a choice, the
\* mission completes: the phase leaves mission (here: on one client at least).
C4_MissionCompletes ==
  MissionSettled ~> (\E c \in Clients : st[c].phase # "mission")

\* C9: on every client in the voting or mission phase, the size of selectedTeam
\* is the MISSION_REQUIREMENTS entry for (number of players, currentMission).
C9_TeamSize ==
  \A c \in Clients :
    st[c].phase \in {"voting", "mission"} =>
      /\ MISSION_REQUIREMENTS(Len(st[c].players)) # <<>>
      /\ st[c].currentMission \in 1..Len(MISSION_REQUIREMENTS(Len(st[c].players)))
      /\ Len(st[c].selectedTeam)
           = MISSION_REQUIREMENTS(Len(st[c].players))[st[c].currentMission]


\* Mission 1 is in its vote, the team has two members, and every player has
\* voted yes; the votes have arrived.
E2EApproved ==
  /\ Quiescent
  /\ \A c \in Clients :
       /\ st[c].phase = "voting"
       /\ st[c].currentMission = 1
       /\ Len(st[c].selectedTeam) = 2
       /\ ui[c].currentPlayerId \in DOMAIN ui[c].votes
       /\ ui[c].votes[ui[c].currentPlayerId]

\* The end of the run on some client: one point for the resistance, mission 2,
\* and the leader the player after the first leader.
E2EDone ==
  \E c \in Clients :
    /\ st[c].resistanceScore = 1
    /\ st[c].spyScore = 0
    /\ st[c].currentMission = 2
    /\ st[c].currentLeader
         = getNextLeader(st[c].players,
                         sortPlayersAlphabetically(st[c].players)[1].id)

\* A team member has left the run by choosing fail.
E2EFailChosen ==
  \E c \in Clients :
    /\ ui[c].currentPlayerId \in DOMAIN ui[c].missionChoices
    /\ ~ui[c].missionChoices[ui[c].currentPlayerId]

\* C5: the end-to-end run is possible: once the team of 2 for mission 1 is
\* approved by all players, the run goes on, the team members choosing success,
\* to resistanceScore 1, spyScore 0, currentMission 2 and the next leader.
C5_EndToEnd == E2EApproved ~> (E2EDone \/ E2EFailChosen)

(* ---------------------- the end of a mission --------------------------- *)

\* Points a team may hold when a mission begins.
MaxScore == 2

\* The session in the mission phase of any mission, every client with the same
\* state.
MissionInit ==
  /\ inbox = [c \in Clients |-> <<>>]
  /\ ui = [c \in Clients |-> JoinedUi(c)]
  /\ \E roles \in SampleShuffles(NumClients) :
       \E resistanceScore, spyScore \in 0..MaxScore :
         \E team \in Teams(MaxPick + 1,
                           getMissionRequirements(NumClients,
                                                  resistanceScore + spyScore + 1)) :
           st = [c \in Clients |->
                   InMission(c, roles, resistanceScore, spyScore, team)]

\* The choices a team can submit: fail by spies only.
FinalChoices(s) ==
  {f \in [Range(s.selectedTeam) -> BOOLEAN] :
     \A p \in Range(s.selectedTeam) :
       f[p] \/ canPlayerChooseFail(FindPlayer(s.players, p))}

\* MissionExecution.handleMissionComplete on the client of a team member, with
\* the choices of the whole team.
MissionCompleteWhile(c, finalChoices, waiting) ==
  LET done == handleMissionComplete(st[c], ui[c].currentPlayerId, finalChoices)
  IN /\ st[c].phase = "mission"
     /\ ui[c].currentPlayerId \in Range(st[c].selectedTeam)
     /\ ui[c].timer = NoTimer
     /\ \A d \in Clients : Len(inbox[d]) < waiting
     /\ st' = [st EXCEPT ![c] = done.state]
     /\ ui' = [ui EXCEPT ![c].missionChoices = finalChoices,
                         ![c].hasChosen = TRUE, ![c].timer = done.timer]
     /\ inbox' = Publish(inbox, {d \in Clients : Subscribed(d)}, done.events)

MissionComplete(c, finalChoices) ==
  MissionCompleteWhile(c, finalChoices, MaxInbox)

MissionNext ==
  \E c \in Clients :
    \/ \E finalChoices \in FinalChoices(st[c]) : MissionComplete(c, finalChoices)
    \/ MissionTimer(c)
    \/ Deliver(c)

MissionSpec == MissionInit /\ [][MissionNext]_vars

\* C10: on every client, a score of 3 means the phase is game-end.
C10_ScoreEndsGame ==
  \A c \in Clients :
    (st[c].resistanceScore >= 3 \/ st[c].spyScore >= 3) =>
      st[c].phase = "game-end"


\* C11: on every client currentMission is between 1 and 5, also after the
\* fifth mission completes and after the game ends.
C11_MissionRange ==
  \A c \in Clients : st[c].currentMission \in 1..5

\* s is t, or t with entries appended.
IsPrefix(s, t) == Len(s) <= Len(t) /\ SubSeq(t, 1, Len(s)) = s

\* C12: on every client missionHistory only grows by appending, and its length
\* is the number of missions completed so far (every completed mission gives
\* one point), on the completing client and on the clients that fold
\* mission-completed.
C12_HistoryComplete ==
  [][\A c \in Clients :
       /\ IsPrefix(st[c].missionHistory, st'[c].missionHistory)
       /\ Len(st'[c].missionHistory)
            = st'[c].resistanceScore + st'[c].spyScore]_vars

\* The mission that client c completes in this step: handleMissionComplete ran on
\* c and appended its result.
CompletesMission(c) ==
  Len(st'[c].missionHistory) = Len(st[c].missionHistory) + 1

LastMission(s) == s.missionHistory[Len(s.missionHistory)]

\* C13: when handleMissionComplete runs on a client, exactly one of its two
\* scores goes up by exactly 1 and the other stays: resistanceScore when every
\* submitted choice is success, spyScore when at least one is fail, for the team
\* sizes of every mission.
C13_ScoreByOne ==
  [][\A c \in Clients :
       CompletesMission(c) =>
         LET choices == LastMission(st'[c]).missionChoices
             allSuccess == \A p \in DOMAIN choices : choices[p]
         IN /\ DOMAIN choices = Range(st[c].selectedTeam)
            /\ allSuccess =>
                 /\ st'[c].resistanceScore = st[c].resistanceScore + 1
                 /\ st'[c].spyScore = st[c].spyScore
            /\ ~allSuccess =>
                 /\ st'[c].resistanceScore = st[c].resistanceScore
                 /\ st'[c].spyScore = st[c].spyScore + 1]_vars

\* A client has just completed a mission of three with one fail among two
\* successes (its timer is still pending), and the point went to the spies.
C13_Witness ==
  \E c \in Clients :
    /\ ui[c].timer.kind = "mission"
    /\ st[c].missionHistory # <<>>
    /\ ui[c].missionChoices = LastMission(st[c]).missionChoices
    /\ LET last == LastMission(st[c])
       IN /\ Cardinality(DOMAIN last.missionChoices) = 3
          /\ Cardinality({p \in DOMAIN last.missionChoices :
                            ~last.missionChoices[p]}) = 1
          /\ last.outcome = "failure"
          /\ st[c].spyScore = last.spyPoints
          /\ st[c].spyScore >= 1

\* The setTimeout callback of a rejected voting round runs on client c in this
\* step.
RejectionHandled(c) ==
  /\ ui[c].timer.kind = "vote"
  /\ ~ui[c].timer.flag
  /\ ui'[c].timer = NoTimer

\* C14: when a rejected voting round is handled, the client is back in team
\* building with selectedTeam empty, currentVotes empty and the leader advanced
\* once, to getNextLeader of the leader of the rejected round.
C14_RejectionResets ==
  [][\A c \in Clients :
       RejectionHandled(c) =>
         /\ st'[c].phase = "team-building"
         /\ st'[c].selectedTeam = <<>>
         /\ st'[c].currentVotes = <<>>
         /\ st'[c].currentLeader
              = getNextLeader(st[c].players, st[c].currentLeader)]_vars

\* No setTimeout callback is pending on any client.
NoTimerPending == \A c \in Clients : ui[c].timer = NoTimer

\* C15: once a completed mission that ends no game has been handled and its
\* events are delivered, every client is in team-building with selectedTeam and
\* currentVotes empty, the same leader as the handling client (advanced once
\* there), and currentMission one past the number of completed missions.
C15_MissionContinues ==
  (Quiescent /\ NoTimerPending
     /\ \E c \in Clients : st[c].phase = "team-building") =>
    \A c, d \in Clients :
      /\ st[d].phase = "team-building"
      /\ st[d].selectedTeam = <<>>
      /\ st[d].currentVotes = <<>>
      /\ st[d].currentLeader = st[c].currentLeader
      /\ st[d].currentMission = st[d].resistanceScore + st[d].spyScore + 1

\* The subscription callback of client c runs in this step on an event that
\* carries c's own player id.
OwnEventArrives(c) ==
  /\ inbox[c] # <<>>
  /\ inbox'[c] = Tail(inbox[c])
  /\ Head(inbox[c]).playerId = ui[c].currentPlayerId

\* C16: a client never folds an event whose sender id is its own player id: when
\* its own event comes back from the channel, its game state stays as it is.
C16_NoSelfFold ==
  [][\A c \in Clients : OwnEventArrives(c) => st'[c] = st[c]]_vars

\* A client voted, its vote-cast event came back and was dropped (its own
\* currentVotes has no entry for it), and another client folded it.
C16_Witness ==
  \E c, d \in Clients :
    /\ c # d
    /\ st[c].phase = "voting"
    /\ ui[c].hasVoted
    /\ inbox[c] = <<>>
    /\ ui[c].currentPlayerId \notin DOMAIN st[c].currentVotes
    /\ ui[c].currentPlayerId \in DOMAIN st[d].currentVotes

(* ------------- the fold alone (GameContext.tsx handleGameEvent) ---------- *)

FoldIds == 1..MaxFoldIds

\* Events of every type that the fold knows, about the first players.
FoldEvents ==
  {PlayerJoined(p, p, NameOf(p)) : p \in FoldIds}
    \cup {PlayerLeft(p, p) : p \in FoldIds}
    \cup {PlayerReady(p, p, b) : p \in FoldIds, b \in BOOLEAN}
    \cup {RolesAssigned(1, [p \in FoldIds |-> IF p = 1 THEN "spy" ELSE "resistance"],
                        1)}
    \cup {LeadershipChanged(1, p) : p \in FoldIds}
    \cup {TeamSelected(1, <<1, 2>>)}
    \cup {VoteCast(p, b) : p \in FoldIds, b \in BOOLEAN}
    \cup {VotingCompleted(1, (1 :> TRUE), TRUE)}
    \cup {BlankEvent("mission-started", 1)}
    \cup {MissionChoiceMade(1, TRUE)}
    \cup {MissionCompleted(1, (1 :> TRUE), TRUE, <<1, 0>>)}
    \cup {GameEnded(1, <<3, 0>>)}

\* Client 1 with no event folded yet; the other clients take no part.
FoldInit ==
  /\ st = [c \in Clients |-> initialGameState]
  /\ inbox = [c \in Clients |-> <<>>]
  /\ ui = [c \in Clients |-> initialUi]

\* The reducer's HANDLE_EVENT on client 1.
Fold(e) ==
  /\ st' = [st EXCEPT ![1] = handleGameEvent(@, e)]
  /\ UNCHANGED <<inbox, ui>>

FoldNext == \E e \in FoldEvents : Fold(e)

FoldSpec == FoldInit /\ [][FoldNext]_vars

\* C17: folding an event twice in a row gives the state that folding it once
\* gives, for player-joined (no second player entry) and for every other event
\* type the fold handles.
C17_FoldIdempotent ==
  \A e \in FoldEvents :
    handleGameEvent(handleGameEvent(st[1], e), e) = handleGameEvent(st[1], e)

\* A player-joined event has been folded: its player is in the list once, and
\* the same event can arrive again.
C17_Witness ==
  \E e \in FoldEvents :
    /\ e.type = "player-joined"
    /\ Cardinality({i \in 1..Len(st[1].players) :
                       st[1].players[i].id = e.target}) = 1
    /\ Len(st[1].players) = MaxFoldIds
    /\ st[1].phase = "voting"

\* Client c joins in this step: handleJoinRoom passed its checks.
Joins(c) == ~ui[c].isJoined /\ ui'[c].isJoined

\* Client c starts the game in this step: handleStartGame passed its check.
StartsGame(c) == st[c].phase = "lobby" /\ st'[c].phase = "role-assignment"

\* C18: a command that must fail validation changes nothing and publishes
\* nothing: no client joins with a name that a player of the room has, or into
\* a room of 10, and no client starts the game with fewer than 5 ready players.
C18_InvalidRejected ==
  [][\A c \in Clients :
       /\ Joins(c) =>
            /\ \A d \in Clients :
                 /\ \A i \in 1..Len(st[d].players) :
                      st[d].players[i].name # NameOf(c)
                 /\ Len(st[d].players) < MaxPlayers
       /\ StartsGame(c) =>
            Cardinality({i \in 1..Len(st[c].players) :
                           st[c].players[i].isReady}) >= MinPlayers]_vars

\* C19: wherever a mission choice is recorded, the player it is recorded for is
\* in selectedTeam, and a recorded fail belongs to a player with the spy role: a
\* recorded choice of a resistance player is success.
C19_OnlySpiesFail ==
  \A c \in Clients :
    \A p \in DOMAIN ui[c].missionChoices :
      /\ p \in Range(st[c].selectedTeam)
      /\ ~ui[c].missionChoices[p] =>
           /\ HasPlayer(st[c].players, p)
           /\ FindPlayer(st[c].players, p).role = "spy"

\* A spy on the team has chosen fail and a resistance player on the team has
\* chosen success.
C19_Witness ==
  \E c, d \in Clients :
    /\ st[c].phase = "mission"
    /\ st[d].phase = "mission"
    /\ ui[c].currentPlayerId \in DOMAIN ui[c].missionChoices
    /\ ~ui[c].missionChoices[ui[c].currentPlayerId]
    /\ ui[d].currentPlayerId \in DOMAIN ui[d].missionChoices
    /\ ui[d].missionChoices[ui[d].currentPlayerId]
    /\ FindPlayer(st[d].players, ui[d].currentPlayerId).role = "resistance"

\* C20: in a voting round, the vote of the leader is yes on every client that
\* records it: on the leader's own client in its component state (cast by the
\* effect, with hasVoted set so that no other vote follows), on the other
\* clients in currentVotes.
C20_LeaderVotesYes ==
  \A c \in Clients :
    st[c].phase = "voting" =>
      /\ (isLeader(c) /\ ui[c].currentPlayerId \in DOMAIN ui[c].votes) =>
           ui[c].votes[ui[c].currentPlayerId] /\ ui[c].hasVoted
      /\ st[c].currentLeader \in DOMAIN st[c].currentVotes =>
           st[c].currentVotes[st[c].currentLeader]

\* The number of fail choices.
Fails(choices) == Cardinality({p \in DOMAIN choices : ~choices[p]})

\* C21: the log entry appended when a mission completes does not tell which
\* player chose what: any other assignment of the same number of fails to the
\* team's players gives the same gameLog.  It carries the mission number, the
\* participants and the outcome.
C21_LogHidesChoices ==
  [][\A c \in Clients :
       CompletesMission(c) =>
         LET actual == LastMission(st'[c]).missionChoices
             entry == st'[c].gameLog[Len(st'[c].gameLog)]
         IN /\ Len(st'[c].gameLog) = Len(st[c].gameLog) + 1
            /\ entry.type = "mission-complete"
            /\ entry.missionNumber = st[c].currentMission
            /\ entry.flag = (Fails(actual) = 0)
            /\ entry.data[1] = st[c].selectedTeam
            /\ \A other \in [DOMAIN actual -> BOOLEAN] :
                 Fails(other) = Fails(actual) =>
                   handleMissionComplete(st[c], ui[c].currentPlayerId,
                                         other).state.gameLog
                     = st'[c].gameLog]_vars

\* A mission of three was just completed with exactly one fail: the log entry
\* could come from a fail of any of the three.
C21_Witness ==
  \E c \in Clients :
    /\ ui[c].timer.kind = "mission"
    /\ st[c].gameLog # <<>>
    /\ st[c].gameLog[Len(st[c].gameLog)].type = "mission-complete"
    /\ st[c].missionHistory # <<>>
    /\ Cardinality(DOMAIN LastMission(st[c]).missionChoices) = 3
    /\ Fails(LastMission(st[c]).missionChoices) = 1

(* --------------- role assignment alone (gameLogic.ts assignRoles) -------- *)

\* A list of n players in join order; player off (if any) is disconnected and
\* player idle (if any) is not ready.
Roster(n, off, idle) ==
  [i \in 1..n |-> [NewPlayer(i, NameOf(i)) EXCEPT !.isConnected = (i # off),
                                                   !.isReady = (i # idle)]]

\* Client 1 holds a lobby of MinRoster..MaxRoster players.
RolesInit ==
  /\ inbox = [c \in Clients |-> <<>>]
  /\ ui = [c \in Clients |-> initialUi]
  /\ \E n \in MinRoster..MaxRoster :
       \E off, idle \in 0..n :
         st = [c \in Clients |->
                 IF c = 1
                 THEN [initialGameState EXCEPT !.players = Roster(n, off, idle)]
                 ELSE initialGameState]

\* assignRoles(state.players), with any outcome of its shuffle, as
\* handleStartGame calls it; it throws when the table has no row.
AssignRoles ==
  /\ st[1].phase = "lobby"
  /\ \E roles \in RoleShuffles(Len(st[1].players)) :
       st' = [st EXCEPT ![1].players = assignRoles(@, roles),
                        ![1].phase = "role-assignment"]
  /\ UNCHANGED <<inbox, ui>>

RolesNext == AssignRoles

RolesSpec == RolesInit /\ [][RolesNext]_vars

SpiesOf(players) == {i \in 1..Len(players) : players[i].role = "spy"}

ResistanceOf(players) == {i \in 1..Len(players) : players[i].role = "resistance"}

\* C22: assignRoles over 5..10 players gives the same players in the same order
\* with only role set, with the table's numbers of resistance and spy roles,
\* for every outcome of the shuffle; over any other number of players it fails
\* and gives nothing.
C22_AssignRoles ==
  [][LET players == st[1].players
         assigned == st'[1].players
         n == Len(players)
     IN /\ (n < MinPlayers \/ n > MaxPlayers) => st' = st
        /\ st' # st =>
             /\ Len(assigned) = n
             /\ \A i \in 1..n :
                  assigned[i] = [players[i] EXCEPT !.role = assigned[i].role]
             /\ Cardinality(ResistanceOf(assigned)) = ROLE_DISTRIBUTION(n)[1]
             /\ Cardinality(SpiesOf(assigned)) = ROLE_DISTRIBUTION(n)[2]
             /\ ResistanceOf(assigned) \cup SpiesOf(assigned) = 1..n]_vars

\* Ten players, one of them disconnected and another not ready, have their
\* roles, the last player a spy.
C22_Witness ==
  /\ st[1].phase = "role-assignment"
  /\ Len(st[1].players) = MaxPlayers
  /\ \E i, j \in 1..MaxPlayers :
       /\ i # j
       /\ ~st[1].players[i].isConnected
       /\ ~st[1].players[j].isReady
       /\ st[1].players[j].isConnected
  /\ st[1].players[MaxPlayers].role = "spy"

(* ------------- leader rotation alone (gameLogic.ts getNextLeader) -------- *)

\* Players 1..Len(names) in join order with the given names and connection
\* flags.
Lineup(names, connected) ==
  [i \in 1..Len(names) |->
     [NewPlayer(i, names[i]) EXCEPT !.isConnected = connected[i]]]

\* Client 1 holds any list of up to MaxLine players, names repeated or not,
\* any of them disconnected, and any current leader: a player of the list or
\* an id that is not in it.
LeaderInit ==
  /\ inbox = [c \in Clients |-> <<>>]
  /\ ui = [c \in Clients |-> initialUi]
  /\ \E n \in 0..MaxLine :
       \E names \in [1..n -> 1..MaxRank], connected \in [1..n -> BOOLEAN],
          current \in 0..(n + 1) :
         st = [c \in Clients |->
                 IF c = 1
                 THEN [initialGameState EXCEPT
                         !.players = Lineup(names, connected),
                         !.currentLeader = current,
                         !.phase = "team-building"]
                 ELSE initialGameState]

\* SET_LEADER with getNextLeader(state.players, state.currentLeader), as the
\* callbacks of a rejected vote and of a completed mission dispatch it; there
\* is no dispatch when getNextLeader throws.
AdvanceLeader ==
  LET nextLeader == getNextLeader(st[1].players, st[1].currentLeader)
  IN /\ nextLeader # NoPlayer
     /\ st' = [st EXCEPT ![1] = SetLeader(@, nextLeader)]
     /\ UNCHANGED <<inbox, ui>>

LeaderNext == AdvanceLeader

LeaderSpec == LeaderInit /\ [][LeaderNext]_vars

\* Player i comes before player j in the list sorted by name (a stable sort:
\* equal names stay in list order).
SortsBefore(players, i, j) ==
  \/ players[i].name < players[j].name
  \/ players[i].name = players[j].name /\ i < j

\* The first, in sorted order, of the players with the indices in among.
FirstSorted(players, among) ==
  CHOOSE i \in among : \A j \in among \ {i} : SortsBefore(players, i, j)

\* C23: getNextLeader gives the connected player that follows the current
\* leader in the order of names, the first one after the last; the first of
\* that order when the current leader is not a connected player; and fails
\* when no player is connected.
C23_NextLeader ==
  LET players == st[1].players
      current == st[1].currentLeader
      connected == {i \in 1..Len(players) : players[i].isConnected}
      here == {i \in connected : players[i].id = current}
      next == getNextLeader(players, current)
  IN IF connected = {} THEN next = NoPlayer
     ELSE IF here = {} THEN next = players[FirstSorted(players, connected)].id
     ELSE LET cur == CHOOSE i \in here : TRUE
              after == {j \in connected : SortsBefore(players, cur, j)}
          IN IF after = {}
             THEN next = players[FirstSorted(players, connected)].id
             ELSE next = players[FirstSorted(players, after)].id

\* The leadership has passed to the first connected player in name order, who
\* is not the first of the list, in a list whose join order is not its name
\* order and that has a disconnected player.
C23_Witness ==
  LET players == st[1].players
      connected == {i \in 1..Len(players) : players[i].isConnected}
  IN /\ Cardinality(connected) >= 3
     /\ Cardinality(connected) < Len(players)
     /\ players[1].name > players[2].name
     /\ \E i \in connected :
          /\ players[i].isLeader
          /\ players[i].id = st[1].currentLeader
          /\ i = FirstSorted(players, connected)
          /\ i # 1

(* ----------- vote counting alone (gameLogic.ts calculateVotingResult) ---- *)

\* VotingController on client 1 holds any map of votes of up to MaxVoters
\* voters, the empty map included.
VotesInit ==
  /\ inbox = [c \in Clients |-> <<>>]
  /\ st = [c \in Clients |->
             IF c = 1 THEN [initialGameState EXCEPT !.phase = "voting"]
             ELSE initialGameState]
  /\ \E voters \in SUBSET (1..MaxVoters) :
       \E votes \in [voters -> BOOLEAN] :
         ui = [c \in Clients |->
                 IF c = 1 THEN [initialUi EXCEPT !.votes = votes] ELSE initialUi]

\* calculateVotingResult(finalVotes) and the team-vote log entry that
\* handleVotingComplete writes from it: approved, yesVotes, noVotes.
TallyVotes ==
  LET result == calculateVotingResult(ui[1].votes)
  IN /\ st[1].gameLog = <<>>
     /\ st' = [st EXCEPT ![1].gameLog =
                  Append(@, LogEntry("team-vote", st[1].currentMission,
                                     result.approved,
                                     <<result.yesVotes, result.noVotes>>))]
     /\ UNCHANGED <<inbox, ui>>

VotesNext == TallyVotes

VotesSpec == VotesInit /\ [][VotesNext]_vars

\* The votes of value b in a map, counted one voter at a time.
RECURSIVE CountVotes(_, _, _)
CountVotes(votes, voters, b) ==
  IF voters = {} THEN 0
  ELSE LET v == CHOOSE x \in voters : TRUE
       IN (IF votes[v] = b THEN 1 ELSE 0) + CountVotes(votes, voters \ {v}, b)

\* C24: calculateVotingResult gives the numbers of true and of false votes as
\* yesVotes and noVotes, and approved exactly when yesVotes > noVotes: a tie,
\* the empty map and a majority of no are not approved.
C24_VotingResult ==
  \A k \in 1..Len(st[1].gameLog) :
    LET entry == st[1].gameLog[k]
        votes == ui[1].votes
        yes == CountVotes(votes, DOMAIN votes, TRUE)
        no == CountVotes(votes, DOMAIN votes, FALSE)
    IN entry.type = "team-vote" =>
         /\ entry.data = <<yes, no>>
         /\ yes + no = Cardinality(DOMAIN votes)
         /\ entry.flag = (yes > no)
         /\ yes = no => ~entry.flag
         /\ votes = <<>> => ~entry.flag
         /\ no > yes => ~entry.flag

\* A tie of two yes and two no has been counted and is not approved.
C24_Witness ==
  /\ Cardinality(DOMAIN ui[1].votes) = 4
  /\ Cardinality({v \in DOMAIN ui[1].votes : ui[1].votes[v]}) = 2
  /\ st[1].gameLog # <<>>
  /\ st[1].gameLog[1].type = "team-vote"
  /\ ~st[1].gameLog[1].flag

(* ---- role visibility (gameLogic.ts getVisibleRoles, GameBoard.tsx) ------ *)

\* getVisibleRoles(currentPlayer, allPlayers): the role shown for each player
\* id, "hidden" for null.
getVisibleRoles(currentPlayer, allPlayers) ==
  [id \in PlayerIdsOf(allPlayers) |->
     IF currentPlayer.role = "spy" THEN FindPlayer(allPlayers, id).role
     ELSE IF id = currentPlayer.id THEN FindPlayer(allPlayers, id).role
     ELSE "hidden"]

\* A board that shows every role to everyone.
shouldShowRoleToAll(s, currentPlayerId, player) == TRUE

\* GameBoard.shouldShowRole(player) in the board of the viewer currentPlayerId.
shouldShowRole(s, currentPlayerId, player) ==
  LET isCurrentPlayerSpy ==
        /\ HasPlayer(s.players, currentPlayerId)
        /\ FindPlayer(s.players, currentPlayerId).role = "spy"
  IN isCurrentPlayerSpy \/ player.id = currentPlayerId

\* Client 1 holds a game of MinPlayers..MaxBoard players with roles assigned
\* in any way; no board is drawn yet.
BoardInit ==
  /\ inbox = [c \in Clients |-> <<>>]
  /\ ui = [c \in Clients |-> initialUi]
  /\ \E n \in MinPlayers..MaxBoard :
       \E roles \in RoleShuffles(n) :
         st = [c \in Clients |->
                 IF c = 1
                 THEN [initialGameState EXCEPT
                         !.players = assignRoles(Roster(n, 0, 0), roles),
                         !.phase = "team-building"]
                 ELSE initialGameState]

\* GameBoard is rendered with currentPlayerId = viewer, a player of the game.
ViewAs(viewer) ==
  /\ HasPlayer(st[1].players, viewer)
  /\ ui' = [ui EXCEPT ![1].currentPlayerId = viewer]
  /\ UNCHANGED <<st, inbox>>

BoardNext == \E viewer \in 1..MaxBoard : ViewAs(viewer)

BoardSpec == BoardInit /\ [][BoardNext]_vars

\* C25: for a viewer who is a spy getVisibleRoles gives every player's role;
\* for a resistance viewer it gives the viewer's own role and hidden for every
\* other player; the board shows a role exactly where getVisibleRoles gives
\* one.
C25_RoleVisibility ==
  LET viewer == ui[1].currentPlayerId
      players == st[1].players
  IN viewer # NoPlayer =>
       LET me == FindPlayer(players, viewer)
           visible == getVisibleRoles(me, players)
       IN \A i \in 1..Len(players) :
            LET player == players[i]
            IN /\ me.role = "spy" => visible[player.id] = player.role
               /\ me.role = "resistance" =>
                    visible[player.id]
                      = IF player.id = viewer THEN me.role ELSE "hidden"
               /\ shouldShowRole(st[1], viewer, player)
                    <=> visible[player.id] # "hidden"

\* The board is drawn for a resistance player in a game that has spies: roles
\* of other players are hidden from that viewer.
C25_Witness ==
  /\ ui[1].currentPlayerId # NoPlayer
  /\ FindPlayer(st[1].players, ui[1].currentPlayerId).role = "resistance"
  /\ \E i \in 1..Len(st[1].players) :
       /\ st[1].players[i].role = "spy"
       /\ ~shouldShowRole(st[1], ui[1].currentPlayerId, st[1].players[i])

(* --------- the start of a game alone (GameRoom.handleStartGame) ---------- *)

\* Client 1 is the room creator, joined as player 1, and holds a lobby of
\* MinRoster..MaxRoster players (a room can hold more than MaxPlayers: the
\* capacity check of handleJoinRoom runs on the joiner's own list).
StartInit ==
  /\ inbox = [c \in Clients |-> <<>>]
  /\ ui = [c \in Clients |-> IF c = 1 THEN JoinedUi(1) ELSE initialUi]
  /\ \E n \in MinRoster..MaxRoster :
       \E off, idle \in 0..n :
         st = [c \in Clients |->
                 IF c = 1
                 THEN [initialGameState EXCEPT !.players = Roster(n, off, idle)]
                 ELSE initialGameState]

StartNext ==
  \/ HandleStartGame(1)
  \/ Deliver(1)

StartSpec == StartInit /\ [][StartNext]_vars

\* The start button is enabled and validateGameStart passes.
StartAccepted(c) ==
  /\ st[c].phase = "lobby"
  /\ canStartGame(c)
  /\ validateGameStart(st[c].players)

\* C26: a start is accepted only with at least 5 ready players and at most 10
\* connected players in total, and an accepted start never makes assignRoles
\* fail on the player count; a start that is not accepted leaves the phase in
\* lobby and assigns no role.
C26_StartAccepted ==
  /\ StartAccepted(1) =>
       /\ Cardinality({i \in 1..Len(st[1].players) :
                         st[1].players[i].isReady}) >= MinPlayers
       /\ Len(ConnectedPlayers(st[1].players)) <= MaxPlayers
       /\ ROLE_DISTRIBUTION(Len(st[1].players)) # <<>>
  /\ st[1].phase # "lobby" =>
       /\ Cardinality({i \in 1..Len(st[1].players) :
                         st[1].players[i].isReady}) >= MinPlayers
       /\ Len(st[1].players) <= MaxPlayers

(* ------ team selection alone (MissionController, validateTeamSelection) -- *)

\* Client 1 is player 1 and the leader, in team building of any mission of a
\* game of MinPlayers..MaxBoard players, one of whom may be disconnected.  The
\* team is empty, or holds the id of a player that has left since it was
\* picked.
TeamInit ==
  /\ inbox = [c \in Clients |-> <<>>]
  /\ ui = [c \in Clients |-> IF c = 1 THEN JoinedUi(1) ELSE initialUi]
  /\ \E n \in MinPlayers..MaxBoard :
       \E off \in 0..n, mission \in 1..5, team \in {<<>>, <<n + 1>>} :
         st = [c \in Clients |->
                 IF c = 1
                 THEN [SetLeader([initialGameState EXCEPT
                                    !.players = Roster(n, off, 0)], 1)
                         EXCEPT !.phase = "team-building",
                                !.currentMission = mission,
                                !.selectedTeam = team]
                 ELSE initialGameState]

TeamNext ==
  \/ \E playerId \in 1..MaxBoard : HandlePlayerToggle(1, playerId)
  \/ HandlePrepareMission(1)
  \/ Deliver(1)

TeamSpec == TeamInit /\ [][TeamNext]_vars

\* No id occurs twice in the sequence.
NoDuplicates(team) ==
  \A i, j \in 1..Len(team) : team[i] = team[j] => i = j

\* The team of state s has the required size for its player count and
\* mission, holds only ids of known, connected players, and no id twice.
ProperTeam(s) ==
  /\ getMissionRequirements(Len(s.players), s.currentMission) > 0
  /\ Len(s.selectedTeam)
       = getMissionRequirements(Len(s.players), s.currentMission)
  /\ \A id \in Range(s.selectedTeam) :
       \E i \in 1..Len(s.players) :
         s.players[i].id = id /\ s.players[i].isConnected
  /\ NoDuplicates(s.selectedTeam)

ResetInit ==
  /\ inbox = [c \in Clients |-> <<>>]
  /\ ui = [c \in Clients |-> JoinedUi(c)]
  /\ \E roles \in SampleShuffles(NumClients) :
       \E resistanceScore, spyScore \in 0..MaxScore :
         \E team \in Teams(MaxPick + 1,
                           getMissionRequirements(NumClients,
                                                  resistanceScore + spyScore + 1)) :
           st = [c \in Clients |->
                   [InMission(c, roles, resistanceScore, spyScore, team)
                      EXCEPT !.roomCode = "ABC123"]]

\* dispatch({type: 'RESET_GAME'}) on a client whose game has ended.
ResetGame(c) ==
  /\ st[c].phase = "game-end"
  /\ st' = [st EXCEPT ![c] = RESET_GAME(@)]
  /\ ui' = [ui EXCEPT ![c] = Remount(@, "lobby")]
  /\ UNCHANGED inbox

ResetNext ==
  \E c \in Clients :
    \/ \E finalChoices \in FinalChoices(st[c]) : MissionComplete(c, finalChoices)
    \/ MissionTimer(c)
    \/ Deliver(c)
    \/ ResetGame(c)

ResetSpec == ResetInit /\ [][ResetNext]_vars

\* C28: the reset of a finished game brings the client to the lobby with the
\* room code and the players kept (ids, names, connection flags), every
\* player not ready and not leader, and every game field cleared: scores 0,
\* currentMission 1, no leader, missionHistory, gameLog, selectedTeam and
\* currentVotes empty.
C28_ResetGame ==
  [][\A c \in Clients :
       ResetGame(c) =>
         /\ st'[c].phase = "lobby"
         /\ st'[c].roomCode = st[c].roomCode
         /\ Len(st'[c].players) = Len(st[c].players)
         /\ \A i \in 1..Len(st[c].players) :
              /\ st'[c].players[i].id = st[c].players[i].id
              /\ st'[c].players[i].name = st[c].players[i].name
              /\ st'[c].players[i].isConnected = st[c].players[i].isConnected
              /\ ~st'[c].players[i].isReady
              /\ ~st'[c].players[i].isLeader
         /\ st'[c].resistanceScore = 0
         /\ st'[c].spyScore = 0
         /\ st'[c].currentMission = 1
         /\ st'[c].currentLeader = NoPlayer
         /\ st'[c].missionHistory = <<>>
         /\ st'[c].gameLog = <<>>
         /\ st'[c].selectedTeam = <<>>
         /\ st'[c].currentVotes = <<>>]_vars

\* A client is back in the lobby of room ABC123 with its five players, while
\* another client still shows the end of the game.
C28_Witness ==
  \E c, d \in Clients :
    /\ st[c].phase = "lobby"
    /\ st[c].roomCode = "ABC123"
    /\ Len(st[c].players) = NumClients
    /\ st[d].phase = "game-end"
    /\ st[d].resistanceScore = 3

\* A state with its players as a set: the order of the list left aside.
FoldView(s) == [s EXCEPT !.players = Range(s.players)]

\* C29: two events of different senders give the same state in either order
\* of folding (the order of the player list left aside), from every state.
C29_FoldCommutes ==
  \A e1, e2 \in FoldEvents :
    e1.playerId # e2.playerId =>
      FoldView(handleGameEvent(handleGameEvent(st[1], e1), e2))
        = FoldView(handleGameEvent(handleGameEvent(st[1], e2), e1))

(* ------------------- commands whose publish is rejected ----------------- *)

\* useEventManager.publishEvent when eventsManager.publish rejects: the hook's
\* error is set and the error is thrown again to the handler.
PublishFails(u) == [u EXCEPT !.error = "Failed to send event"]

\* The states the commands start from: the lobby before any join; the lobby
\* with every client joined and ready; the first round with the leader's team
\* picked, before and after team-selected; a mission in progress.
FailInit ==
  \/ Init
  \/ /\ inbox = [c \in Clients |-> <<>>]
     /\ ui = [c \in Clients |-> JoinedUi(c)]
     /\ \/ st = [c \in Clients |->
                   [initialGameState EXCEPT !.players = LobbyView(1)]]
        \/ \E roles \in SampleShuffles(NumClients) :
             \E team \in Teams(MaxPick + 1, getMissionRequirements(NumClients, 1)) :
               \E voting \in BOOLEAN :
                 st = [c \in Clients |->
                         LET s == Started(c, roles, 1)
                         IN IF voting
                            THEN [s EXCEPT !.selectedTeam = team, !.phase = "voting"]
                            ELSE IF s.currentLeader = generateId(c, 1)
                                 THEN [s EXCEPT !.selectedTeam = team]
                                 ELSE s]
  \/ MissionInit

\* PlayerManager.handleJoinRoom, the publish rejected: the player was added and
\* the component marked joined before the publish; the catch reports only.
JoinRoomFails(c) ==
  LET id == generateId(c, ui[c].joins + 1)
      name == NameOf(c)
  IN /\ st[c].phase = "lobby"
     /\ ~ui[c].isJoined
     /\ ui[c].joins < MaxJoins
     /\ validatePlayerName(name, st[c].players)
     /\ Len(st[c].players) < MaxPlayers
     /\ st' = [st EXCEPT ![c].players = Append(@, NewPlayer(id, name))]
     /\ ui' = [ui EXCEPT ![c] =
                 PublishFails([@ EXCEPT !.isJoined = TRUE, !.currentPlayerId = id,
                                        !.joins = @ + 1])]
     /\ UNCHANGED inbox

\* PlayerManager.handleToggleReady, the publish rejected: UPDATE_PLAYER was
\* dispatched before the publish; the catch reports only.
ToggleReadyFails(c) ==
  LET id == ui[c].currentPlayerId
  IN /\ st[c].phase = "lobby"
     /\ ui[c].isJoined
     /\ HasPlayer(st[c].players, id)
     /\ st' = [st EXCEPT ![c] =
                 UpdatePlayerReady(@, id, ~FindPlayer(st[c].players, id).isReady)]
     /\ ui' = [ui EXCEPT ![c] = PublishFails(@)]
     /\ UNCHANGED inbox

\* GameRoom.handleStartGame, the publish rejected: SET_PLAYERS, SET_LEADER and
\* SET_PHASE were dispatched before the publish; the catch sets the error only.
StartGameFails(c) ==
  /\ st[c].phase = "lobby"
  /\ HasPlayer(st[c].players, ui[c].currentPlayerId)
  /\ canStartGame(c)
  /\ validateGameStart(st[c].players)
  /\ \E roles \in RoleShuffles(Len(st[c].players)) :
       LET playersWithRoles == assignRoles(st[c].players, roles)
           firstLeader == sortPlayersAlphabetically(playersWithRoles)[1].id
       IN st' = [st EXCEPT ![c] =
                   [SetLeader([@ EXCEPT !.players = playersWithRoles], firstLeader)
                      EXCEPT !.phase = "role-assignment"]]
  /\ ui' = [ui EXCEPT ![c] = PublishFails(@)]
  /\ UNCHANGED inbox

\* MissionController.handlePrepareMission, the publish rejected: SET_PHASE
\* comes after the publish and is not reached.
PrepareMissionFails(c) ==
  /\ st[c].phase = "team-building"
  /\ isLeader(c)
  /\ validateTeamSelection(st[c])
  /\ ui' = [ui EXCEPT ![c] = PublishFails(@)]
  /\ UNCHANGED <<st, inbox>>

\* VotingController.handleVote, the publish rejected: setVotes and setHasVoted
\* ran before the publish; the catch takes back hasVoted only.
VoteFails(c, vote) ==
  LET id == ui[c].currentPlayerId
  IN /\ st[c].phase = "voting"
     /\ id # NoPlayer
     /\ ~AutoVoteDue(c)
     /\ ~ui[c].hasVoted
     /\ ui' = [ui EXCEPT ![c] =
                 PublishFails([@ EXCEPT !.votes = (id :> vote) @@ @,
                                        !.hasVoted = FALSE])]
     /\ UNCHANGED <<st, inbox>>

\* MissionExecution.handleMissionChoice, the publish rejected: setMissionChoices
\* and setHasChosen ran before the publish; the catch takes back hasChosen only.
MissionChoiceFails(c, choice) ==
  LET id == ui[c].currentPlayerId
  IN /\ st[c].phase = "mission"
     /\ id # NoPlayer
     /\ ~ui[c].hasChosen
     /\ id \in Range(st[c].selectedTeam)
     /\ choice \/ (HasPlayer(st[c].players, id)
                     /\ canPlayerChooseFail(FindPlayer(st[c].players, id)))
     /\ ui' = [ui EXCEPT ![c] =
                 PublishFails([@ EXCEPT !.missionChoices = (id :> choice) @@ @,
                                        !.hasChosen = FALSE])]
     /\ UNCHANGED <<st, inbox>>

FailNext ==
  \E c \in Clients :
    \/ JoinRoomFails(c)
    \/ ToggleReadyFails(c)
    \/ StartGameFails(c)
    \/ PrepareMissionFails(c)
    \/ \E vote \in BOOLEAN : VoteFails(c, vote)
    \/ \E choice \in BOOLEAN : MissionChoiceFails(c, choice)

FailSpec == FailInit /\ [][FailNext]_vars

\* The game state of a client and the state of its components that the
\* commands write.
LocalState(c) ==
  <<st[c], ui[c].isJoined, ui[c].currentPlayerId, ui[c].votes, ui[c].hasVoted,
    ui[c].missionChoices, ui[c].hasChosen>>

\* C30: a command whose publish is rejected leaves the local state of every
\* client as it was before the command.
C30_FailedCommandNoEffect ==
  [][\A c \in Clients : LocalState(c)' = LocalState(c)]_vars

(* ------------------- what the channel tells of a choice ------------------ *)

\* C31: the events published when a mission completes are the same for every
\* assignment of the same number of fails to the team's players: no client
\* learns from them which player chose what.
C31_EventsHideChoices ==
  [][\A c \in Clients :
       \A finalChoices \in FinalChoices(st[c]) :
         MissionComplete(c, finalChoices) =>
           \A other \in FinalChoices(st[c]) :
             Fails(other) = Fails(finalChoices) =>
               handleMissionComplete(st[c], ui[c].currentPlayerId, other).events
                 = handleMissionComplete(st[c], ui[c].currentPlayerId,
                                         finalChoices).events]_vars

(* ------------------- two starts of the same game ------------------------ *)

\* A room of one player more than there are clients here (the last player's
\* browser only listens), every player ready, the names in join order.  No
\* client is sent the joins made before its own: client c lists the players
\* from c on, as in Spec.
RaceView(first) ==
  [i \in 1..(NumClients + 2 - first) |->
     [NewPlayer(first + i - 1, first + i - 1) EXCEPT !.isReady = TRUE]]

RaceInit ==
  /\ inbox = [c \in Clients |-> <<>>]
  /\ ui = [c \in Clients |-> JoinedUi(c)]
  /\ st = [c \in Clients |-> [initialGameState EXCEPT !.players = RaceView(c)]]

\* The start button is pressed while the roles-assigned event of another
\* start may still be on its way.
RaceNext ==
  \E c \in Clients :
    \/ StartGameWhile(c, MaxInbox + 1)
    \/ Deliver(c)

RaceSpec == RaceInit /\ [][RaceNext]_vars

\* C32: once a client has left the lobby, no step changes the role of a
\* player that it lists.
C32_RolesAssignedOnce ==
  [][\A c \in Clients :
       st[c].phase # "lobby" =>
         \A id \in PlayerIdsOf(st[c].players) \cap PlayerIdsOf(st'[c].players) :
           FindPlayer(st'[c].players, id).role
             = FindPlayer(st[c].players, id).role]_vars

\* C33: on every client every key of currentVotes is the id of a connected
\* player of its list.
C33_VotesOfPlayers ==
  \A c \in Clients :
    DOMAIN st[c].currentVotes \subseteq PlayerIdsOf(ConnectedPlayers(st[c].players))

\* C34: on every client, a step that brings the phase to team-building leaves
\* currentVotes empty.
C34_VotesCleared ==
  [][\A c \in Clients :
       (st[c].phase # "team-building" /\ st'[c].phase = "team-building") =>
         st'[c].currentVotes = <<>>]_vars

OverlapNext ==
  \E c \in Clients :
    \/ \E finalChoices \in FinalChoices(st[c]) :
         MissionCompleteWhile(c, finalChoices, MaxInbox + 1)
    \/ MissionTimer(c)
    \/ Deliver(c)

OverlapSpec == MissionInit /\ [][OverlapNext]_vars

(* ------------- the mission-progression check of the reducer -------------- *)

\* dispatch({type: 'SET_CURRENT_MISSION', payload: missionNumber}).
SetCurrentMission(c, missionNumber) ==
  /\ st' = [st EXCEPT ![c] = SET_CURRENT_MISSION(@, missionNumber)]
  /\ UNCHANGED <<inbox, ui>>

\* dispatch({type: 'ADD_MISSION_RESULT', payload: missionResultData}), with the
\* result of the mission in progress, once: the history holds one result for
\* every point scored before.
AddMissionResult(c, finalChoices) ==
  LET success == calculateMissionResult(finalChoices)
      newScores == IF success
                   THEN <<st[c].resistanceScore + 1, st[c].spyScore>>
                   ELSE <<st[c].resistanceScore, st[c].spyScore + 1>>
  IN /\ Len(st[c].missionHistory) = st[c].resistanceScore + st[c].spyScore
     /\ st' = [st EXCEPT ![c] =
                 ADD_MISSION_RESULT(@, MissionResult(@, finalChoices, success,
                                                     newScores))]
     /\ UNCHANGED <<inbox, ui>>

\* The reducer of client 1 alone.
ProgressionNext ==
  \/ \E missionNumber \in 0..6 : SetCurrentMission(1, missionNumber)
  \/ \E finalChoices \in FinalChoices(st[1]) : AddMissionResult(1, finalChoices)

ProgressionSpec == MissionInit /\ [][ProgressionNext]_vars

\* C36: a SET_CURRENT_MISSION to a number that fails the progression check,
\* and an ADD_MISSION_RESULT that leads to such a number, leave the state as
\* it was.
C36_UpdateRefused ==
  [][\A c \in Clients :
       /\ \A missionNumber \in 0..6 :
            (SetCurrentMission(c, missionNumber)
               /\ ~validateMissionProgression(missionNumber, st[c].resistanceScore,
                                              st[c].spyScore))
              => st'[c] = st[c]
       /\ \A finalChoices \in FinalChoices(st[c]) :
            (AddMissionResult(c, finalChoices)
               /\ ~validateMissionProgression(st[c].currentMission + 1,
                                              st[c].resistanceScore,
                                              st[c].spyScore))
              => st'[c] = st[c]]_vars

(* --------------- useEventManager: connecting to the channel -------------- *)

\* The hook alone, on a channel whose subscribe always rejects.  The caller's
\* onEvent is taken as the same function on every render, so that `connect`
\* is a new function only when reconnectAttempts has changed.  ui[1] holds the
\* hook's state: isConnected, error and reconnectAttempts; the value of
\* reconnectAttempts that the current `connect` closes over; the calls of
\* connect whose subscribe is pending and the timeouts pending, each with the
\* reconnectAttempts of its closure; reconnectTimeoutRef (0 for null); and
\* the number of calls of connect made so far.

maxReconnectAttempts == 5

baseReconnectDelay == 1000

\* Calls of connect that are followed.
MaxConnects == 10

RECURSIVE Pow2(_)
Pow2(n) == IF n = 0 THEN 1 ELSE 2 * Pow2(n - 1)

\* connect() of the render whose reconnectAttempts is `attempts`, up to the
\* await of eventsManager.subscribe.
connect(h, attempts) ==
  [h EXCEPT !.connects = @ + 1,
            !.calls = @ \cup {[id |-> h.connects + 1, attempts |-> attempts]}]

\* disconnect(): the timeout of reconnectTimeoutRef is cleared, the state reset.
disconnect(h) ==
  [h EXCEPT !.timers = {t \in @ : t.id # h.reconnectTimeoutRef},
            !.reconnectTimeoutRef = 0,
            !.isConnected = FALSE,
            !.reconnectAttempts = 0,
            !.error = ""]

\* The renders that follow a change of state.  The effect depends on
\* `connect`, which depends on reconnectAttempts: when that has changed, the
\* effect's cleanup runs disconnect and the effect calls the new connect;
\* disconnect sets reconnectAttempts to 0, which may be a change again.
RECURSIVE Render(_)
Render(h) ==
  IF h.reconnectAttempts = h.closure THEN h
  ELSE Render(connect([disconnect(h) EXCEPT !.closure = h.reconnectAttempts],
                      h.reconnectAttempts))

\* The hook after its first effect: connect() has been called once.
ConnectInit ==
  /\ st = [c \in Clients |-> initialGameState]
  /\ inbox = [c \in Clients |-> <<>>]
  /\ ui = [c \in Clients |->
             IF c = 1
             THEN connect([isConnected |-> FALSE, error |-> "",
                           reconnectAttempts |-> 0, closure |-> 0, calls |-> {},
                           timers |-> {}, reconnectTimeoutRef |-> 0,
                           connects |-> 0], 0)
             ELSE initialUi]

\* The catch of connect: subscribe has rejected.  Below the ceiling of its
\* closure's reconnectAttempts a timeout is set, otherwise the terminal error.
SubscribeFails(call) ==
  /\ call \in ui[1].calls
  /\ ui' = [ui EXCEPT ![1] =
              IF call.attempts < maxReconnectAttempts
              THEN [@ EXCEPT
                      !.calls = @ \ {call},
                      !.isConnected = FALSE,
                      !.error = "Connection failed",
                      !.timers = @ \cup
                        {[id |-> call.id, attempts |-> call.attempts,
                          delay |-> baseReconnectDelay * Pow2(call.attempts)]},
                      !.reconnectTimeoutRef = call.id]
              ELSE [@ EXCEPT
                      !.calls = @ \ {call},
                      !.isConnected = FALSE,
                      !.error = "Maximum reconnection attempts reached"]]
  /\ UNCHANGED <<st, inbox>>

\* The timeout's callback: setReconnectAttempts(prev => prev + 1), then the
\* connect of the callback's own closure; then the renders.
ReconnectTimer(t) ==
  /\ t \in ui[1].timers
  /\ ui[1].connects + 3 <= MaxConnects
  /\ ui' = [ui EXCEPT ![1] =
              Render(connect([@ EXCEPT !.timers = @ \ {t},
                                       !.reconnectAttempts = @ + 1],
                             t.attempts))]
  /\ UNCHANGED <<st, inbox>>

ConnectNext ==
  \/ \E call \in ui[1].calls : SubscribeFails(call)
  \/ \E t \in ui[1].timers : ReconnectTimer(t)

ConnectSpec == ConnectInit /\ [][ConnectNext]_vars

\* C37: while subscribe keeps rejecting, connect is called at most once and
\* maxReconnectAttempts times more.
C37_BoundedRetries == ui[1].connects <= 1 + maxReconnectAttempts

(* ---------------------- who proposes a team ------------------------------ *)

\* The events that this step adds to the subscription of client d.
PublishedTo(d) ==
  IF Len(inbox'[d]) > Len(inbox[d])
  THEN SubSeq(inbox'[d], Len(inbox[d]) + 1, Len(inbox'[d]))
  ELSE <<>>

\* Client c publishes a team-selected event in this step.
ProposesTeam(c) ==
  \E d \in Clients : \E i \in 1..Len(PublishedTo(d)) :
    /\ PublishedTo(d)[i].type = "team-selected"
    /\ PublishedTo(d)[i].playerId = ui[c].currentPlayerId

\* C38: a client that publishes team-selected lists its own player, holds it
\* for the current leader and is in team-building; the publish takes it to
\* voting, so that it proposes once in a round; and at most one client at a
\* time is in team-building holding its own player for the leader.
C38_LeaderProposes ==
  [][/\ \A c \in Clients :
          ProposesTeam(c) =>
            /\ ui[c].currentPlayerId \in PlayerIdsOf(st[c].players)
            /\ ui[c].currentPlayerId = st[c].currentLeader
            /\ st[c].phase = "team-building"
            /\ st'[c].phase = "voting"
     /\ Cardinality({c \in Clients :
                       /\ st[c].phase = "team-building"
                       /\ ui[c].currentPlayerId = st[c].currentLeader
                       /\ ui[c].currentPlayerId \in PlayerIdsOf(st[c].players)})
          <= 1]_vars

\* The leader's team-selected event is on its way to a client still in
\* team-building, and the leader has gone on to voting.
C38_Witness ==
  \E c, d \in Clients :
    /\ inbox[d] # <<>>
    /\ Head(inbox[d]).type = "team-selected"
    /\ Head(inbox[d]).playerId = ui[c].currentPlayerId
    /\ st[c].phase = "voting"
    /\ st[d].phase = "team-building"

\* C39: on every client past the lobby, currentLeader is the id of a listed
\* player and so is every id of selectedTeam.
C39_LeaderAndTeamListed ==
  \A c \in Clients :
    st[c].phase # "lobby" =>
      /\ st[c].currentLeader \in PlayerIdsOf(st[c].players)
      /\ Range(st[c].selectedTeam) \subseteq PlayerIdsOf(st[c].players)

====
